---- MODULE Spec2Model ----
(***************************************************************************)
(* light-strike: the score / combo / health state machine of App           *)
(* (src/unnamed/part_000) and the chart reset of startGame.                *)
(*                                                                         *)
(* React state (useState) is modelled as a committed value plus a queue of *)
(* pending updates per hook.  A handler appends its updates to the queues; *)
(* Render applies the queues hook by hook, in the order the hooks are      *)
(* declared (gameStatus, score, combo, multiplier, health), running the    *)
(* updater functions then.  A setState called from inside an updater that  *)
(* runs during Render is appended to the target hook's queue at that       *)
(* moment, i.e. behind every update the handlers dispatched.               *)
(*                                                                         *)
(* The dwell loop of HandCursor (src/components/HandCursor.tsx) is the      *)
(* second part.  It is followed on a page of its own (SpecCursor): the      *)
(* landmark samples, the element under each finger tip and the mounting    *)
(* and unmounting of the component are inputs, and a click() is recorded,  *)
(* not delivered to App.  Spec and SpecPlayed follow App with HandCursor   *)
(* not mounted.  progress is kept in thousandths (progress * 1000), which  *)
(* with HOVER_THRESHOLD_MS = 1000 is min(1000, elapsed ms).                *)
(***************************************************************************)
EXTENDS Integers, Sequences, FiniteSets, TLC

\* ---------------------------------------------------------------- bounds
MaxEvents  == 7     \* hit/miss events delivered in one run
MaxPending == 2     \* handler calls between two renders
NumNotes   == 1     \* notes of DEMO_CHART whose judgment fields are followed
MaxTimers  == 1     \* setTimeout callbacks pending at once
MaxStarts  == 1     \* startGame calls awaiting a promise at once
MaxPlayed  == 31    \* longest played prefix of InitPlayed
PlayedLeft == 2     \* hit/miss events delivered after a played prefix
MaxFrames  == 4     \* animation frames of the dwell loop in one run
FrameMs    == 250   \* a frame comes FrameMs or 4 * FrameMs after the one before
NumButtons == 1     \* enabled buttons on the page

\* ------------------------------------------------------------- constants
MaxHealth   == 100
HitHeal     == 2
MissDamage  == 15
BasePoints  == 100
GoodCutBonus == 50
NoTime      == -1   \* hitTime undefined
HOVER_THRESHOLD_MS == 1000
CooldownMs  == 500
MaxHands    == 2    \* for (let i = 0; i < 2; i++)

Notes     == 1..NumNotes
OtherNote == NumNotes + 1   \* stands for every note of the chart outside Notes

GameStatus == {"LOADING", "IDLE", "PLAYING", "GAME_OVER", "VICTORY"}

VARIABLES
    gameStatus, score, combo, multiplier, health,   \* useState values as last rendered
    qGameStatus, qScore, qCombo, qMultiplier, qHealth, \* updates dispatched, not yet rendered
    frame,            \* the handlers that ran since the last render, in order
    isCameraReady,    \* useMediaPipe
    audioCtxState,    \* audioCtx.state
    audioPaused,      \* audioRef.current.paused
    resumePending,    \* startGame calls awaiting audioCtx.resume()
    playPending,      \* startGame calls awaiting audioRef.current.play()
    playFailed,       \* the catch block of startGame ran and no session has been
                      \* rendered PLAYING since
    timers,           \* pending setTimeout(() => endGame(false), 0)
    DEMO_CHART,       \* judgment fields of the followed notes
    eventsLeft,       \* hit/miss events the run may still deliver
    mounted,          \* HandCursor is mounted
    loop,             \* requestRef holds a pending animation frame request
    cursors,          \* the two CursorState objects: active, progress, hovering
    internalState,    \* internalState.current: startTime, lastTarget
    marked,           \* the buttons carrying the class data-hand-hover
    now,              \* performance.now()
    framesLeft,       \* animation frames the run may still deliver
    held,             \* per cursor, what its hand did in the sample the last
                      \* frame read: the button it hovered, NoElement, Absent,
                      \* or Unread when there was no sample
    hovered,          \* the enabled buttons under some hand in that sample
    fired,            \* per cursor, the buttons it clicked in the last frame
    dwell             \* per cursor, for the hover its hand is in: since, the
                      \* time of its first frame or of the last click in it,
                      \* and clicked, whether a click was fired in it

states  == <<gameStatus, score, combo, multiplier, health>>
queues  == <<qGameStatus, qScore, qCombo, qMultiplier, qHealth>>
audio   == <<audioCtxState, audioPaused, resumePending, playPending, playFailed>>
hc      == <<mounted, loop, cursors, internalState, marked, now, framesLeft,
             held, hovered, fired, dwell>>
vars    == <<states, queues, frame, isCameraReady, audio, timers, DEMO_CHART, eventsLeft, hc>>

\* ------------------------------------------------------- pure functions
Min(a, b) == IF a < b THEN a ELSE b

Last(s) == s[Len(s)]

Rep(e, k) == [i \in 1..k |-> e]

\* the thresholds compared with >= instead of >
NewMultiplierInclusive(newCombo) ==
    IF newCombo >= 30 THEN 8
    ELSE IF newCombo >= 20 THEN 4
    ELSE IF newCombo >= 10 THEN 2
    ELSE 1

\* handleNoteHit: the multiplier the setCombo updater sets from newCombo
NewMultiplier(newCombo) ==
    IF newCombo > 30 THEN 8
    ELSE IF newCombo > 20 THEN 4
    ELSE IF newCombo > 10 THEN 2
    ELSE 1

\* handleNoteHit: let points = 100; if (goodCut) points += 50
Points(goodCut) == IF goodCut THEN BasePoints + GoodCutBonus ELSE BasePoints

\* handleNoteHit: setHealth(h => Math.min(100, h + 2))
HitHealth(h) == Min(MaxHealth, h + HitHeal)

\* the subtraction without the clamp at 0
MissHealthUnclamped(h) == h - MissDamage

\* handleNoteMiss: the setHealth updater's result
MissHealth(h) == IF h - MissDamage <= 0 THEN 0 ELSE h - MissDamage

\* the timer set only when health would go below 0
MissLethalStrict(h) == h - MissDamage < 0

\* handleNoteMiss: does the setHealth updater schedule endGame(false)
MissLethal(h) == h - MissDamage <= 0

\* ------------------------------------------------ applying update queues
Set(v)  == [op |-> "set", v |-> v]
Add(v)  == [op |-> "add", v |-> v]
Inc     == [op |-> "inc", v |-> 0]
Heal    == [op |-> "heal", v |-> 0]
Hurt    == [op |-> "hurt", v |-> 0]

RECURSIVE ApplyScore(_, _)
ApplyScore(q, s) ==
    IF q = <<>> THEN s
    ELSE ApplyScore(Tail(q), IF Head(q).op = "set" THEN Head(q).v ELSE s + Head(q).v)

RECURSIVE ApplyCombo(_, _)
ApplyCombo(q, c) ==
    IF q = <<>> THEN c
    ELSE ApplyCombo(Tail(q), IF Head(q).op = "set" THEN Head(q).v ELSE c + 1)

\* the setMultiplier calls made by the setCombo updaters that run during Render
RECURSIVE RenderPhaseMultiplier(_, _)
RenderPhaseMultiplier(q, c) ==
    IF q = <<>> THEN <<>>
    ELSE IF Head(q).op = "set" THEN RenderPhaseMultiplier(Tail(q), Head(q).v)
    ELSE <<NewMultiplier(c + 1)>> \o RenderPhaseMultiplier(Tail(q), c + 1)

RECURSIVE ApplyHealth(_, _)
ApplyHealth(q, h) ==
    IF q = <<>> THEN h
    ELSE ApplyHealth(Tail(q),
            CASE Head(q).op = "set"  -> Head(q).v
              [] Head(q).op = "heal" -> HitHealth(h)
              [] Head(q).op = "hurt" -> MissHealth(h))

\* the setTimeout calls made by the setHealth updaters that run during Render
RECURSIVE RenderPhaseTimers(_, _)
RenderPhaseTimers(q, h) ==
    IF q = <<>> THEN 0
    ELSE CASE Head(q).op = "set"  -> RenderPhaseTimers(Tail(q), Head(q).v)
           [] Head(q).op = "heal" -> RenderPhaseTimers(Tail(q), HitHealth(h))
           [] Head(q).op = "hurt" ->
                (IF MissLethal(h) THEN 1 ELSE 0) + RenderPhaseTimers(Tail(q), MissHealth(h))

\* ------------------------------------------------------------------ chart
Pristine(n) == [time |-> n, hit |-> FALSE, missed |-> FALSE, hitTime |-> NoTime]

Unjudged(n) ==
    IF n = OtherNote THEN TRUE ELSE ~DEMO_CHART[n].hit /\ ~DEMO_CHART[n].missed

\* GameScene: note.hit = true; note.hitTime = t
JudgeHit(n) ==
    IF n = OtherNote THEN DEMO_CHART
    ELSE [DEMO_CHART EXCEPT ![n].hit = TRUE, ![n].hitTime = DEMO_CHART[n].time]

\* GameScene: note.missed = true
JudgeMiss(n) ==
    IF n = OtherNote THEN DEMO_CHART
    ELSE [DEMO_CHART EXCEPT ![n].missed = TRUE]

\* startGame: DEMO_CHART.forEach(n => { n.hit = false; n.missed = false; })
ResetNote(note) == [note EXCEPT !.hit = FALSE, !.missed = FALSE]

\* ------------------------------------------------------------ dwell loop
Cursor == {0, 1}                     \* 0 = Left (pink), 1 = Right (blue)
NoElement == 0                       \* null: no button under the finger tip
Buttons == 1..NumButtons             \* buttons without the disabled attribute
DisabledButton == NumButtons + 1     \* a button with the disabled attribute
Targets == {NoElement, DisabledButton} \cup Buttons
Absent == NumButtons + 2             \* no hand of that handedness in the sample
Unread == NumButtons + 3             \* resultsRef.current is null
NoDwell == [since |-> NoTime, clicked |-> FALSE]

\* one hand of a landmark sample: its handedness and what elementFromPoint
\* (...).closest('button') finds under its index finger tip
Hand == [handedness : {"Left", "Right"}, at : Targets]

\* resultsRef.current: null, or a sample with 0..MaxHands hands
NoResults == [ok |-> FALSE, hands |-> <<>>]
Samples == {NoResults} \cup
           {[ok |-> TRUE, hands |-> h] : h \in UNION {[1..k -> Hand] : k \in 0..MaxHands}}

FreshCursor == [active |-> FALSE, progress |-> 0, hovering |-> FALSE]
FreshInternal == [startTime |-> 0, lastTarget |-> NoElement]
NoClicks == [c \in Cursor |-> <<>>]

\* Math.min(1, elapsed / HOVER_THRESHOLD_MS), in thousandths
Progress(elapsed) == Min(HOVER_THRESHOLD_MS, elapsed)

\* updateLoop, the branch `landmarks && handedness` for one hand at time t;
\* st holds cursors, internalState, marked and the clicks of this frame
ProcessHand(st, hand, t) ==
    LET cursorIdx == IF hand.handedness = "Right" THEN 1 ELSE 0
        targetButton == hand.at
        state == st.internalState[cursorIdx]
    IN  IF targetButton # NoElement /\ targetButton # DisabledButton
        THEN IF state.lastTarget # targetButton
             THEN \* new target
                  [st EXCEPT
                     !.cursors[cursorIdx] =
                         [active |-> TRUE, progress |-> 0, hovering |-> TRUE],
                     !.internalState[cursorIdx] =
                         [startTime |-> t, lastTarget |-> targetButton],
                     !.marked = @ \cup {targetButton}]
             ELSE \* still holding same target
                  LET progress == Progress(t - state.startTime)
                  IN  IF progress >= HOVER_THRESHOLD_MS
                      THEN [st EXCEPT
                              !.cursors[cursorIdx] =
                                  [active |-> TRUE, progress |-> 0, hovering |-> TRUE],
                              !.internalState[cursorIdx].startTime = t + CooldownMs,
                              !.marked = @ \cup {targetButton},
                              !.fired[cursorIdx] = Append(@, targetButton)]
                      ELSE [st EXCEPT
                              !.cursors[cursorIdx] =
                                  [active |-> TRUE, progress |-> progress, hovering |-> TRUE],
                              !.marked = @ \cup {targetButton}]
        ELSE \* lost target
             [st EXCEPT
                !.cursors[cursorIdx] =
                    [active |-> TRUE, progress |-> 0, hovering |-> FALSE],
                !.internalState[cursorIdx].lastTarget = NoElement,
                !.marked = @ \ {state.lastTarget}]

\* updateLoop, the branch `Hand lost` for slot i
HandLost(st, i) ==
    IF st.cursors[i].active
    THEN [st EXCEPT !.cursors[i].active = FALSE,
                    !.cursors[i].hovering = FALSE,
                    !.internalState[i].lastTarget = NoElement]
    ELSE st

\* updateLoop, one pass of the for loop
ProcessSlot(st, r, i) ==
    IF i + 1 <= Len(r.hands) THEN ProcessHand(st, r.hands[i + 1], st.t) ELSE HandLost(st, i)

\* updateLoop: slots i .. MaxHands - 1 in order
RECURSIVE ProcessSlots(_, _, _)
ProcessSlots(st, r, i) ==
    IF i >= MaxHands THEN st ELSE ProcessSlots(ProcessSlot(st, r, i), r, i + 1)

\* updateLoop on the sample r at time t
updateLoop(st, r) == IF r.ok THEN ProcessSlots(st, r, 0) ELSE st

\* the hands of the sample r that drive cursor c
HandsOf(r, c) ==
    {i \in 1..Len(r.hands) : (r.hands[i].handedness = "Right") = (c = 1)}

\* in the sample r a hand of cursor c is present and every such hand points
\* at the enabled button b
Hovers(r, c, b) ==
    /\ r.ok /\ b \in Buttons
    /\ HandsOf(r, c) # {}
    /\ \A i \in HandsOf(r, c) : r.hands[i].at = b

\* what the hand of cursor c does in the sample r
Held(r, c) ==
    IF ~r.ok THEN Unread
    ELSE IF HandsOf(r, c) = {} THEN Absent
    ELSE IF \E b \in Buttons : Hovers(r, c, b)
         THEN CHOOSE b \in Buttons : Hovers(r, c, b)
         ELSE NoElement

\* the enabled buttons under the finger tip of some hand of the sample r
Hovered(r) == {b \in Buttons : \E i \in 1..Len(r.hands) : r.hands[i].at = b}

\* document.querySelectorAll('.data-hand-hover') on a page whose marked
\* buttons are m
querySelectorAll(m) == {el \in Buttons : el \in m}

\* the useEffect cleanup as a function of the pending request and the page:
\* cancelAnimationFrame, then classList.remove on every marked element
Cleaned(d) == [loop |-> FALSE, marked |-> d.marked \ querySelectorAll(d.marked)]

\* the useEffect cleanup with the class removal left out
cleanupKeepsMarks ==
    /\ loop' = FALSE
    /\ marked' = marked

\* the useEffect cleanup runs
cleanup ==
    /\ loop' = Cleaned([loop |-> loop, marked |-> marked]).loop
    /\ marked' = Cleaned([loop |-> loop, marked |-> marked]).marked

\* ------------------------------------------------------------------- Init
\* HandCursor as constructed: useState, useRef initial values
FreshHandCursor ==
    /\ cursors = [c \in Cursor |-> FreshCursor]
    /\ internalState = [c \in Cursor |-> FreshInternal]
    /\ held = [c \in Cursor |-> Unread]
    /\ hovered = {}
    /\ fired = NoClicks
    /\ dwell = [c \in Cursor |-> NoDwell]

Init ==
    /\ gameStatus = "LOADING"
    /\ score = 0
    /\ combo = 0
    /\ multiplier = 1
    /\ health = MaxHealth
    /\ qGameStatus = <<>> /\ qScore = <<>> /\ qCombo = <<>>
    /\ qMultiplier = <<>> /\ qHealth = <<>>
    /\ frame = <<>>
    /\ isCameraReady = FALSE
    /\ audioCtxState \in {"suspended", "running"}
    /\ audioPaused = TRUE
    /\ resumePending = 0
    /\ playPending = 0
    /\ playFailed = FALSE
    /\ timers = 0
    /\ DEMO_CHART = [n \in Notes |-> Pristine(n)]
    /\ eventsLeft = MaxEvents
    /\ mounted = FALSE /\ loop = FALSE
    /\ FreshHandCursor
    /\ marked = {}
    /\ now = 0
    /\ framesLeft = MaxFrames

\* --------------------------------------------------------------- handlers
NothingPending == frame = <<>>

\* handleNoteHit(note, goodCut).  eager: React computes the first update
\* dispatched on an idle component at dispatch time, so the setCombo updater
\* (and the setMultiplier inside it) runs inside the handler.
handleNoteHit(goodCut, eager) ==
    /\ qCombo' = Append(qCombo, IF eager THEN Set(combo + 1) ELSE Inc)
    /\ qMultiplier' = IF eager THEN Append(qMultiplier, NewMultiplier(combo + 1))
                      ELSE qMultiplier
    /\ qScore' = Append(qScore, Add(Points(goodCut) * multiplier))
    /\ qHealth' = Append(qHealth, Heal)
    /\ UNCHANGED <<qGameStatus, timers>>

\* handleNoteMiss(note).  eager: setCombo(0) and setMultiplier(1) leave the
\* state as it is, so the setHealth updater is the first effective update
\* and runs inside the handler.
handleNoteMiss(eager) ==
    /\ qCombo' = Append(qCombo, Set(0))
    /\ qMultiplier' = Append(qMultiplier, 1)
    /\ IF eager
       THEN /\ qHealth' = Append(qHealth, Set(MissHealth(health)))
            /\ timers' = timers + (IF MissLethal(health) THEN 1 ELSE 0)
       ELSE /\ qHealth' = Append(qHealth, Hurt)
            /\ timers' = timers
    /\ UNCHANGED <<qGameStatus, qScore>>

\* endGame(victory)
endGame(victory) ==
    /\ qGameStatus' = Append(qGameStatus, IF victory THEN "VICTORY" ELSE "GAME_OVER")
    /\ audioPaused' = TRUE
    /\ playPending' = 0      \* pause() rejects the pending play() promises
    /\ UNCHANGED <<qScore, qCombo, qMultiplier, qHealth, audioCtxState, resumePending,
                   playFailed>>

\* startGame without setScore(0)
startGameBodyKeepsScore(k) ==
    /\ qScore' = qScore
    /\ qCombo' = qCombo \o Rep(Set(0), k)
    /\ qMultiplier' = qMultiplier \o Rep(1, k)
    /\ qHealth' = qHealth \o Rep(Set(MaxHealth), k)
    /\ DEMO_CHART' = [n \in Notes |-> ResetNote(DEMO_CHART[n])]
    /\ audioPaused' = FALSE
    /\ playPending' = playPending + k
    /\ frame' = Append(frame, "start")
    /\ UNCHANGED qGameStatus

\* startGame after `await audioCtx.resume()`, up to `await play()`, for k calls
startGameBody(k) ==
    /\ qScore' = qScore \o Rep(Set(0), k)
    /\ qCombo' = qCombo \o Rep(Set(0), k)
    /\ qMultiplier' = qMultiplier \o Rep(1, k)
    /\ qHealth' = qHealth \o Rep(Set(MaxHealth), k)
    /\ DEMO_CHART' = [n \in Notes |-> ResetNote(DEMO_CHART[n])]
    /\ audioPaused' = FALSE
    /\ playPending' = playPending + k
    /\ frame' = Append(frame, "start")
    /\ UNCHANGED qGameStatus

\* ---------------------------------------------------------------- actions
\* useMediaPipe reports the camera ready; the effect of App then leaves LOADING
CameraReady ==
    /\ ~isCameraReady
    /\ isCameraReady' = TRUE
    /\ IF gameStatus = "LOADING"
       THEN /\ qGameStatus' = Append(qGameStatus, "IDLE")
            /\ frame' = Append(frame, "camera")
       ELSE UNCHANGED <<qGameStatus, frame>>
    /\ UNCHANGED <<states, qScore, qCombo, qMultiplier, qHealth, audio, timers,
                   DEMO_CHART, eventsLeft>>
    /\ UNCHANGED hc

\* GameScene judges note n hit and calls onNoteHit
NoteHit(n, goodCut, eager) ==
    /\ gameStatus = "PLAYING"
    /\ Len(frame) < MaxPending
    /\ eventsLeft > 0
    /\ eager => NothingPending
    /\ Unjudged(n)
    /\ DEMO_CHART' = JudgeHit(n)
    /\ handleNoteHit(goodCut, eager)
    /\ frame' = Append(frame, IF goodCut THEN "goodHit" ELSE "hit")
    /\ eventsLeft' = eventsLeft - 1
    /\ UNCHANGED <<states, isCameraReady, audio>>
    /\ UNCHANGED hc

\* GameScene judges note n missed and calls onNoteMiss
NoteMiss(n, eager) ==
    /\ gameStatus = "PLAYING"
    /\ Len(frame) < MaxPending
    /\ eventsLeft > 0
    /\ eager => (NothingPending /\ combo = 0 /\ multiplier = 1)
    /\ timers + (IF eager THEN (IF MissLethal(health) THEN 1 ELSE 0)
                  ELSE RenderPhaseTimers(Append(qHealth, Hurt), health)) <= MaxTimers
    /\ Unjudged(n)
    /\ DEMO_CHART' = JudgeMiss(n)
    /\ handleNoteMiss(eager)
    /\ frame' = Append(frame, "miss")
    /\ eventsLeft' = eventsLeft - 1
    /\ UNCHANGED <<states, isCameraReady, audio>>
    /\ UNCHANGED hc

\* GameScene calls onSongEnd
SongEnd ==
    /\ gameStatus = "PLAYING"
    /\ Len(frame) < MaxPending
    /\ endGame(TRUE)
    /\ frame' = Append(frame, "songEnd")
    /\ UNCHANGED <<states, isCameraReady, timers, DEMO_CHART, eventsLeft>>
    /\ UNCHANGED hc

\* the timer set by a lethal miss fires
TimerFire ==
    /\ timers > 0
    /\ timers' = timers - 1
    /\ endGame(FALSE)
    /\ frame' = Append(frame, "timer")
    /\ UNCHANGED <<states, isCameraReady, DEMO_CHART, eventsLeft>>
    /\ UNCHANGED hc

\* a click on START GAME runs startGame up to its first await
StartGame ==
    /\ gameStatus = "IDLE" /\ isCameraReady      \* the button is rendered
    /\ NothingPending /\ timers = 0
    /\ resumePending + playPending < MaxStarts
    /\ IF audioCtxState = "suspended"
       THEN /\ resumePending' = resumePending + 1
            /\ UNCHANGED <<queues, frame, DEMO_CHART, audioPaused, playPending>>
       ELSE /\ startGameBody(1)
            /\ UNCHANGED resumePending
    /\ UNCHANGED <<states, isCameraReady, audioCtxState, playFailed, timers, eventsLeft>>
    /\ UNCHANGED hc

\* audioCtx.resume() resolves
ResumeDone ==
    /\ resumePending > 0
    /\ audioCtxState' = "running"
    /\ resumePending' = 0
    /\ startGameBody(resumePending)
    /\ UNCHANGED <<states, isCameraReady, playFailed, timers, eventsLeft>>
    /\ UNCHANGED hc

\* startGame with setGameStatus(PLAYING) moved out of the try block
startGameTailUnguarded(ok) ==
    /\ qGameStatus' = qGameStatus \o Rep("PLAYING", playPending)
    /\ frame' = Append(frame, "play")
    /\ audioPaused' = (IF ok THEN audioPaused ELSE TRUE)
    /\ playFailed' = (playFailed \/ ~ok)

\* startGame from the settling of `await play()` to its end, for every
\* pending call: setGameStatus(PLAYING) when play() resolved, the catch block
\* (console.error, alert) when it rejected; either way startGame returns.
startGameTail(ok) ==
    IF ok
    THEN /\ qGameStatus' = qGameStatus \o Rep("PLAYING", playPending)
         /\ frame' = Append(frame, "play")
         /\ UNCHANGED <<audioPaused, playFailed>>
    ELSE /\ audioPaused' = TRUE
         /\ playFailed' = TRUE
         /\ UNCHANGED <<qGameStatus, frame>>

\* audioRef.current.play() settles for every pending call
PlayDone(ok) ==
    /\ playPending > 0
    /\ playPending' = 0
    /\ startGameTail(ok)
    /\ UNCHANGED <<states, qScore, qCombo, qMultiplier, qHealth, isCameraReady,
                   audioCtxState, resumePending, timers, DEMO_CHART, eventsLeft>>
    /\ UNCHANGED hc

\* a click on Play Again
PlayAgain ==
    /\ gameStatus \in {"GAME_OVER", "VICTORY"}
    /\ NothingPending /\ timers = 0
    /\ qGameStatus' = Append(qGameStatus, "IDLE")
    /\ frame' = Append(frame, "playAgain")
    /\ UNCHANGED <<states, qScore, qCombo, qMultiplier, qHealth, isCameraReady,
                   audio, timers, DEMO_CHART, eventsLeft>>
    /\ UNCHANGED hc

\* React renders App: every queue is applied
Render ==
    /\ frame # <<>>
    /\ gameStatus' = IF qGameStatus = <<>> THEN gameStatus ELSE Last(qGameStatus)
    /\ score' = ApplyScore(qScore, score)
    /\ combo' = ApplyCombo(qCombo, combo)
    /\ LET q == qMultiplier \o RenderPhaseMultiplier(qCombo, combo)
       IN  multiplier' = IF q = <<>> THEN multiplier ELSE Last(q)
    /\ health' = ApplyHealth(qHealth, health)
    /\ timers' = timers + RenderPhaseTimers(qHealth, health)
    /\ qGameStatus' = <<>> /\ qScore' = <<>> /\ qCombo' = <<>>
    /\ qMultiplier' = <<>> /\ qHealth' = <<>>
    /\ frame' = <<>>
    /\ playFailed' = (playFailed /\ gameStatus' # "PLAYING")
    /\ UNCHANGED <<isCameraReady, audioCtxState, audioPaused, resumePending,
                   playPending, DEMO_CHART, eventsLeft>>
    /\ UNCHANGED hc

Next ==
    \/ CameraReady
    \/ \E n \in Notes \cup {OtherNote}, goodCut \in BOOLEAN, eager \in BOOLEAN :
           NoteHit(n, goodCut, eager)
    \/ \E n \in Notes \cup {OtherNote}, eager \in BOOLEAN : NoteMiss(n, eager)
    \/ SongEnd
    \/ TimerFire
    \/ StartGame
    \/ ResumeDone
    \/ \E ok \in BOOLEAN : PlayDone(ok)
    \/ PlayAgain
    \/ Render

Spec == Init /\ [][Next]_vars

\* ------------------------------------------------- a session under way
\* The score after c hits, every one rendered before the next is delivered,
\* all of them with goodCut = g, the first at combo 0: each hit adds its
\* points times the multiplier App rendered before it.
RECURSIVE PlayedScore(_, _)
PlayedScore(c, g) ==
    IF c = 0 THEN 0
    ELSE PlayedScore(c - 1, g) + Points(g) * NewMultiplier(c - 1)

\* health after k further misses / k further hits
RECURSIVE AfterMisses(_, _)
AfterMisses(h, k) == IF k = 0 THEN h ELSE AfterMisses(MissHealth(h), k - 1)

RECURSIVE AfterHits(_, _)
AfterHits(h, k) == IF k = 0 THEN h ELSE AfterHits(HitHealth(h), k - 1)

\* The state of a session in which a notes were missed, then c notes were
\* hit, then b notes were missed, one per frame and each frame rendered.
Played(a, c, b, g) ==
    /\ gameStatus = "PLAYING"
    /\ score = PlayedScore(c, g)
    /\ combo = (IF b > 0 THEN 0 ELSE c)
    /\ multiplier = (IF b > 0 THEN 1 ELSE NewMultiplier(c))
    /\ health = AfterMisses(AfterHits(AfterMisses(MaxHealth, a), c), b)
    /\ qGameStatus = <<>> /\ qScore = <<>> /\ qCombo = <<>>
    /\ qMultiplier = <<>> /\ qHealth = <<>>
    /\ frame = <<>>
    /\ isCameraReady = TRUE
    /\ audioCtxState = "running"
    /\ audioPaused = FALSE
    /\ resumePending = 0
    /\ playPending = 0
    /\ playFailed = FALSE
    /\ timers = 0
    /\ DEMO_CHART = [n \in Notes |-> Pristine(n)]
    /\ eventsLeft = PlayedLeft
    /\ mounted = FALSE /\ loop = FALSE
    /\ FreshHandCursor
    /\ marked = {}
    /\ now = 0
    /\ framesLeft = MaxFrames

\* The sessions under way: 1..MaxPlayed hits in a row from the start, and
\* the session that has come down to health 15 (5 misses, 10 hits, 2 misses).
InitPlayed ==
    \/ Init
    \/ \E c \in 1..MaxPlayed, g \in BOOLEAN : Played(0, c, 0, g)
    \/ \E g \in BOOLEAN : Played(5, 10, 2, g)

SpecPlayed == InitPlayed /\ [][Next]_vars

\* ----------------------------------------------------- the dwell loop page
app == <<states, queues, frame, isCameraReady, audio, timers, DEMO_CHART, eventsLeft>>

\* App renders <HandCursor/>: a new component with its initial state
Mount ==
    /\ ~mounted
    /\ mounted' = TRUE
    /\ loop' = FALSE
    /\ cursors' = [c \in Cursor |-> FreshCursor]
    /\ internalState' = [c \in Cursor |-> FreshInternal]
    /\ held' = [c \in Cursor |-> Unread]
    /\ hovered' = {}
    /\ fired' = NoClicks
    /\ dwell' = [c \in Cursor |-> NoDwell]
    /\ UNCHANGED <<marked, now, framesLeft, app>>

\* the useEffect of HandCursor runs with isCameraReady true
StartLoop ==
    /\ mounted /\ ~loop
    /\ isCameraReady
    /\ loop' = TRUE
    /\ UNCHANGED <<mounted, cursors, internalState, marked, now, framesLeft,
                   held, hovered, fired, dwell, app>>

\* an animation frame dt ms after the last one: updateLoop reads the sample r.
\* The landmark source overwrites resultsRef.current, so it is null only
\* until the first sample.
Tick(r, dt) ==
    /\ loop
    /\ framesLeft > 0
    /\ ~r.ok => \A c \in Cursor : held[c] = Unread
    /\ framesLeft' = framesLeft - 1
    /\ now' = now + dt
    /\ held' = [c \in Cursor |-> Held(r, c)]
    /\ hovered' = Hovered(r)
    /\ \E st \in {updateLoop([cursors |-> cursors, internalState |-> internalState,
                                marked |-> marked, fired |-> NoClicks, t |-> now + dt], r)} :
           /\ cursors' = st.cursors
           /\ internalState' = st.internalState
           /\ marked' = st.marked
           /\ fired' = st.fired
           /\ dwell' =
                 [c \in Cursor |->
                    IF st.fired[c] # <<>> THEN [since |-> now + dt, clicked |-> TRUE]
                    ELSE IF Held(r, c) \notin Buttons THEN NoDwell
                    ELSE IF Held(r, c) = held[c] THEN dwell[c]
                    ELSE [since |-> now + dt, clicked |-> FALSE]]
    /\ UNCHANGED <<mounted, loop, app>>

\* App stops rendering <HandCursor/>: the cleanup of its effect runs if the
\* effect had started the loop, and the component's state and refs are gone
Unmount ==
    /\ mounted
    /\ mounted' = FALSE
    /\ IF loop THEN cleanup ELSE UNCHANGED <<loop, marked>>
    /\ cursors' = [c \in Cursor |-> FreshCursor]
    /\ internalState' = [c \in Cursor |-> FreshInternal]
    /\ UNCHANGED <<now, framesLeft, held, hovered, fired, dwell, app>>

NextCursor ==
    \/ Mount
    \/ StartLoop
    \/ \E r \in Samples, dt \in {FrameMs, 4 * FrameMs} : Tick(r, dt)
    \/ Unmount

\* the page the dwell loop is followed on: the start screen of App once the
\* camera is ready (CameraReady, then Render), the audio context suspended
InitCursor ==
    /\ gameStatus = "IDLE"
    /\ score = 0 /\ combo = 0 /\ multiplier = 1 /\ health = MaxHealth
    /\ qGameStatus = <<>> /\ qScore = <<>> /\ qCombo = <<>>
    /\ qMultiplier = <<>> /\ qHealth = <<>>
    /\ frame = <<>>
    /\ isCameraReady = TRUE
    /\ audioCtxState = "suspended"
    /\ audioPaused = TRUE
    /\ resumePending = 0
    /\ playPending = 0
    /\ playFailed = FALSE
    /\ timers = 0
    /\ DEMO_CHART = [n \in Notes |-> Pristine(n)]
    /\ eventsLeft = MaxEvents
    /\ mounted = FALSE /\ loop = FALSE
    /\ FreshHandCursor
    /\ marked = {}
    /\ now = 0
    /\ framesLeft = MaxFrames

SpecCursor == InitCursor /\ [][NextCursor]_vars

\* ================================================================ claims
\* the updates of the handlers that ran since the last render are applied
Rendered == frame # <<>> /\ frame' = <<>>

\* the handlers that ran since the last render are exactly fr
RenderedFrame(fr) == frame = fr /\ frame' = <<>>

HitTags == {"hit", "goodHit"}

OnlyJudgments(fr) == \A i \in 1..Len(fr) : fr[i] \in HitTags \cup {"miss"}

\* the multiplier tier of a combo, as the description states it
TierOf(c) == IF c > 30 THEN 8 ELSE IF c > 20 THEN 4 ELSE IF c > 10 THEN 2 ELSE 1

\* C1: after every update of health by any sequence of hit and miss events,
\* 0 <= health <= 100.
C1_HealthClamped == health \in 0..MaxHealth

\* C1 witness: misses have driven health below 15 and one more miss clamped
\* it at 0 while the session is still PLAYING.
C1_Witness == gameStatus = "PLAYING" /\ health = 0 /\ eventsLeft <= MaxEvents - 7

\* C2 (as claimed): the points a hit adds to score are (100, plus 50 for a
\* correct direction) times the multiplier of the combo this hit produces;
\* the 11th direction-correct hit of a fresh session adds 150 * 2.
C2_PointsUseNewMultiplier ==
    [][\A g \in BOOLEAN :
          RenderedFrame(<<IF g THEN "goodHit" ELSE "hit">>)
              => score' = score + Points(g) * TierOf(combo + 1)]_vars

\* C3: the multiplier a hit sets from the new combo c is 8 if c > 30, else 4
\* if c > 20, else 2 if c > 10, else 1; it lies in {1,2,4,8}, does not go
\* down from the multiplier the previous hit set, and the boundaries are
\* strict (10 -> 1, 11 -> 2, 20 -> 2, 21 -> 4, 31 -> 8).
C3_MultiplierTiers ==
    [][(\E t \in HitTags : RenderedFrame(<<t>>)) =>
          /\ combo' = combo + 1
          /\ multiplier' \in {1, 2, 4, 8}
          /\ multiplier' = TierOf(combo')
          /\ (multiplier = TierOf(combo) => multiplier' >= multiplier)
          /\ (combo' = 10 => multiplier' = 1)
          /\ (combo' = 11 => multiplier' = 2)
          /\ (combo' = 20 => multiplier' = 2)
          /\ (combo' = 21 => multiplier' = 4)
          /\ (combo' = 31 => multiplier' = 8)]_vars

\* C3 witness: a hit delivered at combo 30 has been rendered: combo 31, x8.
C3_Witness ==
    /\ gameStatus = "PLAYING" /\ frame = <<>>
    /\ combo = 31 /\ multiplier = 8
    /\ eventsLeft = PlayedLeft - 1

\* C4 (as claimed): once every queued update has been applied, the stored
\* multiplier is the tier of the stored combo.
C4_MultiplierFollowsCombo == frame = <<>> => multiplier = TierOf(combo)

\* C5 (as claimed): when the updates of a miss are applied, combo = 0 and
\* multiplier = 1, whatever was there before.
C5_MissResets ==
    [][(Rendered /\ Last(frame) = "miss") => (combo' = 0 /\ multiplier' = 1)]_vars

PhaseEdges ==
    { <<"LOADING", "IDLE">>, <<"IDLE", "PLAYING">>, <<"PLAYING", "GAME_OVER">>,
      <<"PLAYING", "VICTORY">>, <<"GAME_OVER", "IDLE">>, <<"VICTORY", "IDLE">> }

C7_PhaseEdges ==
    [][gameStatus' # gameStatus => <<gameStatus, gameStatus'>> \in PhaseEdges]_vars

\* C8 (as claimed): the phase becomes VICTORY only with health > 0.
C8_VictoryNeedsHealth ==
    [][(gameStatus # "VICTORY" /\ gameStatus' = "VICTORY") => health' > 0]_vars

\* C9: whenever the phase becomes PLAYING, score = 0, combo = 0,
\* multiplier = 1 and health = 100 at that moment.
C9_StartResets ==
    [][(gameStatus # "PLAYING" /\ gameStatus' = "PLAYING") =>
          (score' = 0 /\ combo' = 0 /\ multiplier' = 1 /\ health' = MaxHealth)]_vars

\* C9 witness: a session that delivered events has ended and a new one has
\* begun with the initial values.
C9_Witness ==
    /\ gameStatus = "PLAYING" /\ frame = <<>>
    /\ eventsLeft < MaxEvents
    /\ score = 0 /\ combo = 0 /\ multiplier = 1 /\ health = MaxHealth

\* C10 (as claimed): whenever the phase becomes PLAYING every note has hit,
\* missed and hitTime cleared, and its other fields are as they were.
C10_ChartPristine ==
    [][(gameStatus # "PLAYING" /\ gameStatus' = "PLAYING") =>
          \A n \in Notes : DEMO_CHART'[n] = Pristine(n)]_vars

\* C11: when play() is rejected inside startGame, no phase update is queued
\* and the phase stays what it was, the rejection ends in the catch block and
\* startGame returns (no call is left awaiting, the start button still
\* works); when play() of a later call resolves, PLAYING is queued and the
\* next render makes the phase PLAYING.
C11_PlayFailureRetryable ==
    [][/\ (playPending > 0 /\ playPending' = 0 /\ audioPaused') =>
            /\ gameStatus' = gameStatus /\ qGameStatus' = qGameStatus
            /\ gameStatus' # "PLAYING"
            /\ playFailed'
            /\ frame' = frame
       /\ (playFailed /\ playPending > 0 /\ playPending' = 0 /\ ~audioPaused') =>
            (qGameStatus' # <<>> /\ Last(qGameStatus') = "PLAYING")
       /\ (playFailed /\ Rendered /\ Last(frame) = "play") => gameStatus' = "PLAYING"
       /\ (gameStatus # "PLAYING" /\ gameStatus' = "PLAYING") =>
            (Rendered /\ \E i \in 1..Len(frame) : frame[i] = "play")]_vars

\* C11 witness: a start attempt failed on the start screen, the button was
\* pressed again, play() resolved and PLAYING is queued for the next render.
C11_Witness ==
    /\ playFailed /\ gameStatus = "IDLE"
    /\ playPending = 0 /\ ~audioPaused
    /\ qGameStatus # <<>> /\ Last(qGameStatus) = "PLAYING"
    /\ Last(frame) = "play"

\* an animation frame of the dwell loop has run
Ticked == framesLeft' < framesLeft

\* the hand of cursor c is on the same enabled button in the sample of this
\* frame as in the sample of the frame before
StaysOn(c) == held[c] \in Buttons /\ held'[c] = held[c]

\* C12 (as claimed): a cursor fires at most one click per frame, and while
\* its hand stays on the button it has clicked it fires the next click of
\* that button no sooner than the 500 ms cooldown plus a full 1000 ms dwell
\* after the last one.
C12_ClickOnceThenCooldown ==
    [][\A c \in Cursor :
          /\ Len(fired'[c]) <= 1
          /\ (Ticked /\ fired'[c] # <<>> /\ StaysOn(c) /\ dwell[c].clicked) =>
                now' - dwell[c].since >= CooldownMs + HOVER_THRESHOLD_MS]_vars

\* C13 (as claimed): from one frame to the next, while the hand of a cursor
\* stays on the same button, the cursor's progress does not decrease.  The
\* frame that fires the click, where progress goes back to 0 for the next
\* dwell, is left out.
C13_ProgressMonotone ==
    [][\A c \in Cursor :
          (Ticked /\ StaysOn(c) /\ fired'[c] = <<>>)
              => cursors'[c].progress >= cursors[c].progress]_vars

\* C14 (as claimed): every cursor's progress lies in [0,1] (0..1000
\* thousandths) in every reachable state.
C14_ProgressInRange ==
    \A c \in Cursor : cursors[c].progress \in 0..HOVER_THRESHOLD_MS

\* C15 (as claimed): in the frame whose sample no longer holds the hand of a
\* cursor that was part-way through a dwell, the cursor's progress becomes
\* 0; and in the frame where the hand is back on a button after having been
\* absent, the dwell starts anew: progress 0, start time now, no click.
C15_HandLostResets ==
    [][\A c \in Cursor :
          /\ (Ticked /\ held[c] \in Buttons /\ cursors[c].progress > 0
                 /\ held'[c] = Absent) => cursors'[c].progress = 0
          /\ (Ticked /\ held[c] = Absent /\ held'[c] \in Buttons) =>
                /\ cursors'[c].progress = 0
                /\ internalState'[c].startTime = now'
                /\ fired'[c] = <<>>]_vars

\* C16 (as claimed): after every frame of the dwell loop, a button carries
\* the marker only if a hand of the frame's sample is over it.
C16_MarkedOnlyIfHovered ==
    [][Ticked => marked' \subseteq hovered']_vars

\* C17: the teardown of HandCursor leaves no button marked and no frame
\* request pending; while the loop is stopped no button is marked, no frame
\* runs and no click is fired; the cleanup applied to what it has left
\* changes nothing.
C17_TeardownStopsLoop ==
    [][/\ (mounted /\ ~mounted') => (marked' = {} /\ ~loop')
       /\ ~loop => (~Ticked /\ (fired' = fired \/ fired' = NoClicks))
       /\ ~loop' => marked' = {}
       /\ LET d == [loop |-> loop', marked |-> marked']
          IN  Cleaned(Cleaned(d)) = Cleaned(d) /\ (~loop' => Cleaned(d) = d)]_vars

\* C17 witness: the last frame before the teardown marked the button under
\* a hand; HandCursor is unmounted and the button is no longer marked.
C17_Witness ==
    /\ ~mounted /\ ~loop
    /\ framesLeft < MaxFrames
    /\ hovered # {}
    /\ marked = {}

\* C18 (as claimed): in every frame whose sample holds a hand of a cursor
\* over an enabled button, the cursor is active and keeps that button as its
\* dwell target after the frame, whatever the other slot holds; and when the
\* hand has stayed on the button for 1000 ms without a click, the frame
\* fires the click.
C18_EitherHandDwells ==
    [][\A c \in Cursor :
          (Ticked /\ held'[c] \in Buttons) =>
              /\ cursors'[c].active
              /\ internalState'[c].lastTarget = held'[c]
              /\ (StaysOn(c) /\ ~dwell[c].clicked
                     /\ now' - dwell[c].since >= HOVER_THRESHOLD_MS)
                    => fired'[c] # <<>>]_vars

\* C19 (as claimed): whenever the phase becomes GAME_OVER, health is 0.
C19_GameOverAtZeroHealth ==
    [][(gameStatus # "GAME_OVER" /\ gameStatus' = "GAME_OVER") => health' = 0]_vars

====
